---------------------------- MODULE Spec2Model ----------------------------
(***************************************************************************)
(* LocationIndexService (location-index.service.ts): the lazily built,     *)
(* memoised nearest-neighbour index over a CSV of geographic points, its   *)
(* build protocol (ensureReady / buildIndex) and its query (findNearest).  *)
(*                                                                         *)
(* Conventions.  Coordinates are integers in micro-degrees.  A JavaScript  *)
(* number that may be non-finite is a record [k, v] with k in              *)
(* {"num", "nan", "inf", "ninf"}; a limit's v is in tenths, so that        *)
(* fractional limits exist.  null is the record Null.  The wall-clock      *)
(* fields of the stats (buildDurationMs, lastLoadedAt) are represented by  *)
(* the number of the build that wrote them.                                *)
(***************************************************************************)
EXTENDS Integers, Sequences, FiniteSets, TLC

VARIABLES
    configured,      \* whether LOCATION_CSV_PATH is set           (environment)
    exists,          \* the candidate paths fs.access() finds      (environment)
    file,            \* the rows of the CSV source                 (environment)
    records,         \* this.records
    index,           \* this.index
    stats,           \* this.stats
    loadingPromise,  \* this.loadingPromise: 0 is null, else the build awaited
    build,           \* the activation of buildIndex that is running, if any
    promise,         \* per build: state of buildIndex().finally(...)
    pc,              \* per caller: where it is in initIndex / findNearest
    op,              \* per caller: "init" or "find"
    arg,             \* per caller: the query (lat, lng, limit)
    awaiting,        \* per caller: the build its ensureReady awaits or awaited (0: none)
    result,          \* per caller: what the call returned or threw
    loadCount,       \* spy: invocations of buildIndex (load passes)
    constructCount,  \* spy: invocations of new KDBush(...)
    statsWrites      \* spy: assignments to this.stats

vars == <<configured, exists, file, records, index, stats, loadingPromise,
          build, promise, pc, op, arg, awaiting, result,
          loadCount, constructCount, statsWrites>>

-----------------------------------------------------------------------------
(* Bounds *)

NumCallers == 2
MaxBuilds == 2
MaxRows == 2

Callers == 1..NumCallers
Builds == 1..MaxBuilds

-----------------------------------------------------------------------------
(* Values *)

Null == [null |-> TRUE]

Num(v) == [k |-> "num", v |-> v]
NaN == [k |-> "nan", v |-> 0]
PosInf == [k |-> "inf", v |-> 0]
NegInf == [k |-> "ninf", v |-> 0]
Missing == [k |-> "undefined", v |-> 0]

Min(a, b) == IF a <= b THEN a ELSE b
Max(a, b) == IF a >= b THEN a ELSE b

Take(s, k) == SubSeq(s, 1, Min(k, Len(s)))

RECURSIVE Reverse(_)
Reverse(s) == IF s = <<>> THEN <<>> ELSE Append(Reverse(Tail(s)), Head(s))

-----------------------------------------------------------------------------
(* The CSV source *)

\* A CSV field as fast-csv delivers it (trimmed): absent column, empty
\* string, text that Number() turns into NaN, "Infinity", or a numeral.
FAbsent == [k |-> "absent", v |-> 0]
FEmpty == [k |-> "empty", v |-> 0]
FText == [k |-> "text", v |-> 0]
FInfinity == [k |-> "infinity", v |-> 0]
FNum(v) == [k |-> "numeral", v |-> v]

Row(id, lat, lng) == [id |-> id, latitude |-> lat, longitude |-> lng]

Alpha == Row("Alpha", FNum(1000000), FNum(1000000))
Beta == Row("Beta", FNum(1050000), FNum(1050000))
Gamma == Row("Gamma", FNum(-9500000), FNum(121000000))
Near4 == Row("Near4", FNum(1000004), FNum(1000000))
Near1 == Row("Near1", FNum(1000001), FNum(1000000))
Near1S == Row("Near1S", FNum(999999), FNum(1000000))
Pole == Row("Pole", FNum(89000000), FNum(-170000000))
Date == Row("Date", FNum(0), FNum(179000000))
NoLat == Row("NoLat", FEmpty, FNum(1000000))
BadLng == Row("BadLng", FNum(1000000), FText)
NoLng == Row("NoLng", FNum(1000000), FAbsent)
InfLat == Row("InfLat", FInfinity, FNum(1000000))

\* test/fixtures/locations-sample.csv as the spec describes it
FixtureFile == <<Alpha, Beta, Gamma>>

RECURSIVE Cycle(_, _)
Cycle(rows, n) ==
    IF n = 0 THEN <<>>
    ELSE Append(Cycle(rows, n - 1), rows[((n - 1) % Len(rows)) + 1])

-----------------------------------------------------------------------------
(* Geometry *)

EARTH_RADIUS_METERS == 6371000

\* The central angle c of computeDistance, in units of 1e-8 rad: lines
\* 216-222 evaluated in IEEE double arithmetic for every pair (query point,
\* record point) of the model, tabulated.  Arguments in micro-degrees.
CentralAngleTable ==
       <<-95000000, 170000000, 1000000, 1000000>> :> 150258803
    @@ <<-95000000, 170000000, 1050000, 1050000>> :> 150347515
    @@ <<-95000000, 170000000, -9500000, 121000000>> :> 146256070
    @@ <<-95000000, 170000000, 1000004, 1000000>> :> 150258810
    @@ <<-95000000, 170000000, 1000001, 1000000>> :> 150258805
    @@ <<-95000000, 170000000, 999999, 1000000>> :> 150258801
    @@ <<-95000000, 170000000, 89000000, -170000000>> :> 307047659
    @@ <<-95000000, 170000000, 0, 179000000>> :> 165698571
    @@ <<-95000000, 170000000, 0, 1000000>> :> 148513717
    @@ <<-90000000, -190000000, 1000000, 1000000>> :> 158824962
    @@ <<-90000000, -190000000, 1050000, 1050000>> :> 158912228
    @@ <<-90000000, -190000000, -9500000, 121000000>> :> 140499005
    @@ <<-90000000, -190000000, 1000004, 1000000>> :> 158824969
    @@ <<-90000000, -190000000, 1000001, 1000000>> :> 158824964
    @@ <<-90000000, -190000000, 999999, 1000000>> :> 158824960
    @@ <<-90000000, -190000000, 89000000, -170000000>> :> 312413936
    @@ <<-90000000, -190000000, 0, 179000000>> :> 157079633
    @@ <<-90000000, -190000000, 0, 1000000>> :> 157079633
    @@ <<-90000000, 170000000, 1000000, 1000000>> :> 158824962
    @@ <<-90000000, 170000000, 1050000, 1050000>> :> 158912228
    @@ <<-90000000, 170000000, -9500000, 121000000>> :> 140499005
    @@ <<-90000000, 170000000, 1000004, 1000000>> :> 158824969
    @@ <<-90000000, 170000000, 1000001, 1000000>> :> 158824964
    @@ <<-90000000, 170000000, 999999, 1000000>> :> 158824960
    @@ <<-90000000, 170000000, 89000000, -170000000>> :> 312413936
    @@ <<-90000000, 170000000, 0, 179000000>> :> 157079633
    @@ <<-90000000, 170000000, 0, 1000000>> :> 157079633
    @@ <<-9500000, 121000000, 1000000, 1000000>> :> 208972274
    @@ <<-9500000, 121000000, 1050000, 1050000>> :> 208902139
    @@ <<-9500000, 121000000, -9500000, 121000000>> :> 0
    @@ <<-9500000, 121000000, 1000004, 1000000>> :> 208972275
    @@ <<-9500000, 121000000, 1000001, 1000000>> :> 208972274
    @@ <<-9500000, 121000000, 999999, 1000000>> :> 208972273
    @@ <<-9500000, 121000000, 89000000, -170000000>> :> 173032599
    @@ <<-9500000, 121000000, 0, 179000000>> :> 102083795
    @@ <<-9500000, 121000000, 0, 1000000>> :> 208649503
    @@ <<0, -180000000, 1000000, 1000000>> :> 311691060
    @@ <<0, -180000000, 1050000, 1050000>> :> 311567656
    @@ <<0, -180000000, -9500000, 121000000>> :> 103796449
    @@ <<0, -180000000, 1000004, 1000000>> :> 311691055
    @@ <<0, -180000000, 1000001, 1000000>> :> 311691058
    @@ <<0, -180000000, 999999, 1000000>> :> 311691061
    @@ <<0, -180000000, 89000000, -170000000>> :> 155360822
    @@ <<0, -180000000, 0, 179000000>> :> 1745329
    @@ <<0, -180000000, 0, 1000000>> :> 312413936
    @@ <<0, -179000000, 1000000, 1000000>> :> 312413936
    @@ <<0, -179000000, 1050000, 1050000>> :> 312324593
    @@ <<0, -179000000, -9500000, 121000000>> :> 105509763
    @@ <<0, -179000000, 1000004, 1000000>> :> 312413929
    @@ <<0, -179000000, 1000001, 1000000>> :> 312413934
    @@ <<0, -179000000, 999999, 1000000>> :> 312413938
    @@ <<0, -179000000, 89000000, -170000000>> :> 155355793
    @@ <<0, -179000000, 0, 179000000>> :> 3490659
    @@ <<0, -179000000, 0, 1000000>> :> 314159265
    @@ <<0, 0, 1000000, 1000000>> :> 2468206
    @@ <<0, 0, 1050000, 1050000>> :> 2591609
    @@ <<0, 0, -9500000, 121000000>> :> 210362816
    @@ <<0, 0, 1000004, 1000000>> :> 2468211
    @@ <<0, 0, 1000001, 1000000>> :> 2468207
    @@ <<0, 0, 999999, 1000000>> :> 2468204
    @@ <<0, 0, 89000000, -170000000>> :> 158798444
    @@ <<0, 0, 0, 179000000>> :> 312413936
    @@ <<0, 0, 0, 1000000>> :> 1745329
    @@ <<1000000, -359000000, 1000000, 1000000>> :> 0
    @@ <<1000000, -359000000, 1050000, 1050000>> :> 123404
    @@ <<1000000, -359000000, -9500000, 121000000>> :> 208972274
    @@ <<1000000, -359000000, 1000004, 1000000>> :> 7
    @@ <<1000000, -359000000, 1000001, 1000000>> :> 2
    @@ <<1000000, -359000000, 999999, 1000000>> :> 2
    @@ <<1000000, -359000000, 89000000, -170000000>> :> 157058149
    @@ <<1000000, -359000000, 0, 179000000>> :> 310256749
    @@ <<1000000, -359000000, 0, 1000000>> :> 1745329
    @@ <<1000000, 1000000, 1000000, 1000000>> :> 0
    @@ <<1000000, 1000000, 1050000, 1050000>> :> 123404
    @@ <<1000000, 1000000, -9500000, 121000000>> :> 208972274
    @@ <<1000000, 1000000, 1000004, 1000000>> :> 7
    @@ <<1000000, 1000000, 1000001, 1000000>> :> 2
    @@ <<1000000, 1000000, 999999, 1000000>> :> 2
    @@ <<1000000, 1000000, 89000000, -170000000>> :> 157058149
    @@ <<1000000, 1000000, 0, 179000000>> :> 310256749
    @@ <<1000000, 1000000, 0, 1000000>> :> 1745329
    @@ <<1100000, 1100000, 1000000, 1000000>> :> 246806
    @@ <<1100000, 1100000, 1050000, 1050000>> :> 123403
    @@ <<1100000, 1100000, -9500000, 121000000>> :> 208831949
    @@ <<1100000, 1100000, 1000004, 1000000>> :> 246801
    @@ <<1100000, 1100000, 1000001, 1000000>> :> 246805
    @@ <<1100000, 1100000, 999999, 1000000>> :> 246807
    @@ <<1100000, 1100000, 89000000, -170000000>> :> 156884091
    @@ <<1100000, 1100000, 0, 179000000>> :> 310021893
    @@ <<1100000, 1100000, 0, 1000000>> :> 1927778
    @@ <<90000000, -170000000, 1000000, 1000000>> :> 155334303
    @@ <<90000000, -170000000, 1050000, 1050000>> :> 155247037
    @@ <<90000000, -170000000, -9500000, 121000000>> :> 173660261
    @@ <<90000000, -170000000, 1000004, 1000000>> :> 155334296
    @@ <<90000000, -170000000, 1000001, 1000000>> :> 155334302
    @@ <<90000000, -170000000, 999999, 1000000>> :> 155334305
    @@ <<90000000, -170000000, 89000000, -170000000>> :> 1745329
    @@ <<90000000, -170000000, 0, 179000000>> :> 157079633
    @@ <<90000000, -170000000, 0, 1000000>> :> 157079633
    @@ <<95000000, -170000000, 1000000, 1000000>> :> 146715529
    @@ <<95000000, -170000000, 1050000, 1050000>> :> 146627078
    @@ <<95000000, -170000000, -9500000, 121000000>> :> 176728321
    @@ <<95000000, -170000000, 1000004, 1000000>> :> 146715522
    @@ <<95000000, -170000000, 1000001, 1000000>> :> 146715527
    @@ <<95000000, -170000000, 999999, 1000000>> :> 146715531
    @@ <<95000000, -170000000, 89000000, -170000000>> :> 10471976
    @@ <<95000000, -170000000, 0, 179000000>> :> 165645549
    @@ <<95000000, -170000000, 0, 1000000>> :> 148460694

CentralAngle(lat1, lng1, lat2, lng2) ==
    CentralAngleTable[<<lat1, lng1, lat2, lng2>>]

\* RoundedMeters with Math.floor in the place of Math.round
FlooredMeters(cE8) ==
    LET km == EARTH_RADIUS_METERS \div 1000
        hi == cE8 \div 100000
        lo == cE8 % 100000
    IN  km * hi + (km * lo) \div 100000

\* Math.round(EARTH_RADIUS_METERS * c), with c = cE8 * 1e-8; the product is
\* split so that it stays within 32 bits.
RoundedMeters(cE8) ==
    LET km == EARTH_RADIUS_METERS \div 1000
        hi == cE8 \div 100000
        lo == cE8 % 100000
    IN  km * hi + (km * lo + 50000) \div 100000

computeDistance(lat1, lng1, lat2, lng2) ==
    RoundedMeters(CentralAngle(lat1, lng1, lat2, lng2))

\* clamp without Math.max: only the upper bound is applied
clampUpperOnly(value, min, max) ==
    CASE value.k = "nan"  -> NaN
      [] value.k = "inf"  -> Num(max)
      [] value.k = "ninf" -> Num(min)
      [] OTHER            -> Num(Min(value.v, max))

\* clamp without Math.min: only the lower bound is applied
clampLowerOnly(value, min, max) ==
    CASE value.k = "nan"  -> NaN
      [] value.k = "inf"  -> Num(max)
      [] value.k = "ninf" -> Num(min)
      [] OTHER            -> Num(Max(value.v, min))

\* Math.min(Math.max(value, min), max) on a JS number; NaN stays NaN
clamp(value, min, max) ==
    CASE value.k = "nan"  -> NaN
      [] value.k = "inf"  -> Num(max)
      [] value.k = "ninf" -> Num(min)
      [] OTHER            -> Num(Min(Max(value.v, min), max))

\* JavaScript's %: the result has the sign of the dividend
JsRem(a, b) == IF a >= 0 THEN a % b ELSE -((-a) % b)

\* normalizeLng without the correction of a negative remainder (line 235)
normalizeLngRemainderOnly(value) ==
    IF value.k # "num" THEN Num(0)
    ELSE Num(JsRem(value.v + 180000000, 360000000) - 180000000)

normalizeLng(value) ==
    IF value.k # "num" THEN Num(0)
    ELSE LET normalized == JsRem(value.v + 180000000, 360000000) - 180000000
         IN  Num(IF normalized < -180000000 THEN normalized + 360000000
                 ELSE normalized)

-----------------------------------------------------------------------------
(* Loading a row *)

\* safeNumber without the test for the empty string (Number('') is 0)
safeNumberEmptyIsZero(value) ==
    IF value.k = "absent" THEN Null
    ELSE IF value.k = "empty" THEN Num(0)
    ELSE IF value.k = "numeral" THEN Num(value.v)
    ELSE Null

safeNumber(value) ==
    IF value.k \in {"absent", "empty"} THEN Null
    ELSE IF value.k = "numeral" THEN Num(value.v)   \* Number.isFinite(parsed)
    ELSE Null                                       \* NaN or Infinity

toLocationRecord(row) ==
    LET latitude == safeNumber(row.latitude)
        longitude == safeNumber(row.longitude)
    IN  IF latitude = Null \/ longitude = Null THEN Null
        ELSE [id |-> row.id, latitude |-> latitude.v, longitude |-> longitude.v]

-----------------------------------------------------------------------------
(* The query *)

maxNeighbors == 50

\* FloorOrOne with Math.round in the place of Math.floor
RoundOrOne(limit) ==
    CASE limit.k = "undefined" -> Num(1)
      [] limit.k = "nan"       -> Num(1)
      [] limit.k = "num"       -> IF (limit.v + 5) \div 10 = 0 THEN Num(1)
                                  ELSE Num((limit.v + 5) \div 10)
      [] OTHER                 -> limit

\* Math.floor(limit) || 1 : 0 and NaN are falsy
FloorOrOne(limit) ==
    CASE limit.k = "undefined" -> Num(1)          \* default parameter
      [] limit.k = "nan"       -> Num(1)
      [] limit.k = "num"       -> IF limit.v \div 10 = 0 THEN Num(1)
                                  ELSE Num(limit.v \div 10)
      [] OTHER                 -> limit            \* +-Infinity

\* Neighbors without Math.min(..., this.maxNeighbors)
NeighborsUncapped(limit) ==
    LET f == FloorOrOne(limit)
    IN  CASE f.k = "inf"  -> maxNeighbors + maxNeighbors
          [] f.k = "ninf" -> 1
          [] OTHER        -> Max(f.v, 1)

\* Math.min(Math.max(Math.floor(limit) || 1, 1), this.maxNeighbors)
Neighbors(limit) ==
    LET f == FloorOrOne(limit)
    IN  CASE f.k = "inf"  -> maxNeighbors
          [] f.k = "ninf" -> 1
          [] OTHER        -> Min(Max(f.v, 1), maxNeighbors)

withDistance(record, lat, lng) ==
    [id |-> record.id, latitude |-> record.latitude,
     longitude |-> record.longitude,
     distanceMeters |-> computeDistance(lat, lng, record.latitude, record.longitude)]

Annotate(recs, lat, lng) == [i \in 1..Len(recs) |-> withDistance(recs[i], lat, lng)]

\* Array.prototype.sort with the comparator a.key - b.key is stable: an
\* element goes after every element whose key is not greater.
RECURSIVE InsertByKey(_, _)
InsertByKey(x, s) ==
    IF s = <<>> THEN <<x>>
    ELSE IF x.key < Head(s).key THEN <<x>> \o s
    ELSE <<Head(s)>> \o InsertByKey(x, Tail(s))

RECURSIVE StableSortByKey(_)
StableSortByKey(s) ==
    IF s = <<>> THEN <<>>
    ELSE InsertByKey(s[Len(s)], StableSortByKey(SubSeq(s, 1, Len(s) - 1)))

Items(s) == [i \in 1..Len(s) |-> s[i].item]

\* linearNearest without its sort
linearNearestUnsorted(recs, lat, lng, limit) ==
    Take(Annotate(recs, lat, lng), limit)

\* lines 208-213
linearNearest(recs, lat, lng, limit) ==
    LET mapped == Annotate(recs, lat, lng)
        keyed == [i \in 1..Len(mapped) |->
                     [key |-> mapped[i].distanceMeters, item |-> mapped[i]]]
    IN  Take(Items(StableSortByKey(keyed)), limit)

\* around yielding the farthest points first
aroundFarthestFirst(idx, recs, lng, lat, k) ==
    LET pts == IF idx.tie = "rev" THEN Reverse(recs) ELSE recs
        keyed == [i \in 1..Len(pts) |->
                     [key |-> CentralAngle(lat, lng, pts[i].latitude, pts[i].longitude),
                      item |-> pts[i]]]
    IN  Take(Reverse(Items(StableSortByKey(keyed))), k)

\* geokdbush.around(index, lng, lat, k): the k points of the index nearest
\* to (lng, lat) by great-circle distance, nearest first.  The library
\* compares unrounded distances; points at exactly the same distance leave
\* its priority queue in an order that the tree fixes (idx.tie).
around(idx, recs, lng, lat, k) ==
    LET pts == IF idx.tie = "rev" THEN Reverse(recs) ELSE recs
        keyed == [i \in 1..Len(pts) |->
                     [key |-> CentralAngle(lat, lng, pts[i].latitude, pts[i].longitude),
                      item |-> pts[i]]]
    IN  Take(Items(StableSortByKey(keyed)), k)
-----------------------------------------------------------------------------
(* Inputs *)

Query(lat, lng, limit) == [lat |-> lat, lng |-> lng, limit |-> limit]
NoQuery == Query(Num(0), Num(0), Missing)

\* the query of the protocol specification: (1, 1), limit 2
Queries ==
    { Query(Num(1000000), Num(1000000), Num(20)) }

\* the sources of the protocol specification: one without a valid row, one
\* with two records within a metre of (1, 1) and a row that is skipped
SpecFiles == { <<NoLat>>, <<Near4, BadLng, Near1>> }

\* The sources of the query specification: every file of at most MaxRows
\* rows over QueryRows (a row that is skipped, three records within a metre
\* of (1, 1), two of them at the same distance from it), the fixture, and
\* a file of more than maxNeighbors records.
QueryRows == {NoLat, Near4, Near1, Near1S}
BigFile == Cycle(<<Alpha, Beta, Gamma, Pole, Date>>, maxNeighbors + 2)
\* five rows, two of them with a coordinate that is not a number; and a file
\* with a row without a longitude column and one whose latitude is Infinity
FiveRows == <<Alpha, NoLat, Beta, BadLng, Gamma>>
OddRows == <<NoLng, Near4, InfLat>>
\* a record a tenth of a metre from (1, 1), then the record at (1, 1)
NearThenExact == <<Near1, Alpha>>
QueryFiles ==
    UNION { [1..n -> QueryRows] : n \in 0..MaxRows }
        \cup {FixtureFile, BigFile, FiveRows, OddRows, NearThenExact}

\* The queries of the query specification: limits 1 and 2 at several
\* points, in and out of range, and every kind of limit at (1, 1).
QueryPoints ==
    { <<1000000, 1000000>>, <<0, 0>>, <<-9500000, 121000000>>,
      <<95000000, 190000000>>, <<1000000, 361000000>>,
      <<0, 180000000>>, <<0, 181000000>>, <<-95000000, -190000000>>,
      <<1000000, -359000000>> }

QueryLimits ==
    { Missing, NaN, PosInf, NegInf, Num(0), Num(-30), Num(5), Num(20), Num(27),
      Num(500), Num(510), Num(600) }
QueryQueries ==
    { Query(Num(p[1]), Num(p[2]), l) : p \in QueryPoints, l \in {Num(10), Num(20)} }
        \cup { Query(Num(1000000), Num(1000000), l) : l \in QueryLimits }

\* The requests of the HTTP specification: the two of the end-to-end test
\* (lat=1&lng=1 and lat=200&lng=10), coordinates below and above their
\* range or not a number, and limits in range, out of range, fractional and
\* not a number.
Numeral(v) == [k |-> "numeral", v |-> v]
AbsentParam == [k |-> "absent", v |-> 0]
TextParam == [k |-> "text", v |-> 0]
HttpRequests ==
    { [lat |-> Numeral(1000000), lng |-> Numeral(1000000), limit |-> l] :
          l \in { AbsentParam, TextParam, Numeral(0), Numeral(-10), Numeral(20),
                  Numeral(25), Numeral(500), Numeral(510) } }
    \cup { [lat |-> la, lng |-> Numeral(10000000), limit |-> AbsentParam] :
              la \in { Numeral(200000000), Numeral(-91000000), TextParam } }
    \cup { [lat |-> Numeral(1000000), lng |-> lo, limit |-> AbsentParam] :
              lo \in { Numeral(181000000), Numeral(-181000000), TextParam } }
    \cup { [lat |-> Numeral(-9500000), lng |-> Numeral(121000000), limit |-> Numeral(10)] }
HttpFiles == { FixtureFile, <<NoLat>>, FiveRows }

\* resolveCsvPath's candidates, in the order it probes them
Candidates ==
    (IF configured THEN <<"LOCATION_CSV_PATH">> ELSE <<>>)
        \o <<"cwd/languoid.csv", "cwd/../../languoid.csv",
             "dirname/../../../../../languoid.csv">>

ExistsChoices ==
    { {}, {"LOCATION_CSV_PATH", "cwd/languoid.csv"},
      {"cwd/../../languoid.csv", "dirname/../../../../../languoid.csv"} }

-----------------------------------------------------------------------------
(* State *)

NoBuild ==
    [id |-> 0, phase |-> "none", csvPath |-> "", rows |-> <<>>,
     totalRows |-> 0, skippedRows |-> 0, error |-> Null]

PromiseNone == [state |-> "none", error |-> Null]
PromisePending == [state |-> "pending", error |-> Null]

NoResult == [status |-> "none", items |-> <<>>, error |-> Null, path |-> "none"]
Returned(items, path) ==
    [status |-> "ok", items |-> items, error |-> Null, path |-> path]
Thrown(error) ==
    [status |-> "error", items |-> <<>>, error |-> error, path |-> "none"]

Idle ==
    /\ pc = [c \in Callers |-> "idle"]
    /\ op = [c \in Callers |-> "none"]
    /\ arg = [c \in Callers |-> NoQuery]
    /\ awaiting = [c \in Callers |-> 0]
    /\ result = [c \in Callers |-> NoResult]

Unbuilt ==
    /\ records = <<>>
    /\ index = Null
    /\ stats = Null
    /\ loadingPromise = 0
    /\ build = NoBuild
    /\ promise = [b \in Builds |-> PromiseNone]
    /\ loadCount = 0
    /\ constructCount = 0
    /\ statsWrites = 0

Init ==
    /\ \/ /\ configured \in BOOLEAN
          /\ exists \in ExistsChoices
          /\ file = <<Alpha>>
       \/ /\ configured = FALSE
          /\ exists = {"cwd/languoid.csv"}
          /\ file \in SpecFiles
    /\ Unbuilt
    /\ Idle

-----------------------------------------------------------------------------
(* ensureReady *)

\* line 73: if (this.records.length) return;
IsReady(recs) == Len(recs) > 0

\* MustStartBuild without the test of this.loadingPromise
MustStartBuildUnguarded(recs, lp) == ~IsReady(recs)

\* line 77: if (!this.loadingPromise)
MustStartBuild(recs, lp) == ~IsReady(recs) /\ lp = 0

\* A caller (one that has not called yet, or one that has its answer and
\* calls again) enters initIndex or findNearest and runs ensureReady up to
\* its await.  The first caller with nothing loaded and nothing in flight calls
\* buildIndex, which runs up to its first await (in resolveCsvPath).
Call(c, o, q) ==
    /\ pc[c] \in {"idle", "done"}
    /\ pc' = [pc EXCEPT ![c] = "awaiting"]
    /\ op' = [op EXCEPT ![c] = o]
    /\ arg' = [arg EXCEPT ![c] = q]
    /\ result' = [result EXCEPT ![c] = NoResult]
    /\ UNCHANGED <<configured, exists, file, records, index, stats,
                   constructCount, statsWrites>>
    /\ IF IsReady(records)
       THEN /\ awaiting' = [awaiting EXCEPT ![c] = 0]
            /\ UNCHANGED <<loadingPromise, build, promise, loadCount>>
       ELSE IF MustStartBuild(records, loadingPromise)
       THEN /\ loadCount < MaxBuilds
            /\ loadCount' = loadCount + 1
            /\ build' = [NoBuild EXCEPT !.id = loadCount + 1, !.phase = "resolving"]
            /\ promise' = [promise EXCEPT ![loadCount + 1] = PromisePending]
            /\ loadingPromise' = loadCount + 1
            /\ awaiting' = [awaiting EXCEPT ![c] = loadCount + 1]
       ELSE /\ awaiting' = [awaiting EXCEPT ![c] = loadingPromise]
            /\ UNCHANGED <<loadingPromise, build, promise, loadCount>>

-----------------------------------------------------------------------------
(* buildIndex *)

\* FirstExisting without fs.access: the first candidate, probed or not
FirstCandidate(candidates, present) == Head(candidates)

\* lines 147-154: the first candidate fs.access accepts, "" when there is none
RECURSIVE FirstExisting(_, _)
FirstExisting(candidates, present) ==
    IF candidates = <<>> THEN ""
    ELSE IF Head(candidates) \in present THEN Head(candidates)
    ELSE FirstExisting(Tail(candidates), present)

NoSourceError(b, candidates) ==
    [kind |-> "NoSource", build |-> b, probed |-> candidates]
StreamFailure(b, kind) == [kind |-> kind, build |-> b, probed |-> <<>>]

\* line 87: resolveCsvPath returns the first candidate that exists, or
\* throws, which rejects buildIndex
ResolvePath ==
    /\ build.phase = "resolving"
    /\ LET found == FirstExisting(Candidates, exists)
       IN  build' = IF found # ""
                    THEN [build EXCEPT !.phase = "streaming", !.csvPath = found]
                    ELSE [build EXCEPT !.phase = "rejected",
                                       !.error = NoSourceError(build.id, Candidates)]
    /\ UNCHANGED <<configured, exists, file, records, index, stats,
                   loadingPromise, promise, pc, op, arg, awaiting, result,
                   loadCount, constructCount, statsWrites>>

\* StreamRow for a data handler that pushes to this.records, not to the
\* local rows
StreamRowIntoRecords ==
    /\ build.phase = "streaming"
    /\ build.totalRows < Len(file)
    /\ LET parsed == toLocationRecord(file[build.totalRows + 1])
       IN  /\ build' = IF parsed = Null
                       THEN [build EXCEPT !.totalRows = @ + 1, !.skippedRows = @ + 1]
                       ELSE [build EXCEPT !.totalRows = @ + 1,
                                          !.rows = Append(@, parsed)]
           /\ records' = IF parsed = Null THEN records ELSE Append(records, parsed)
    /\ UNCHANGED <<configured, exists, file, index, stats,
                   loadingPromise, promise, pc, op, arg, awaiting, result,
                   loadCount, constructCount, statsWrites>>

\* lines 97-107: one 'data' event
StreamRow ==
    /\ build.phase = "streaming"
    /\ build.totalRows < Len(file)
    /\ LET parsed == toLocationRecord(file[build.totalRows + 1])
       IN  build' = IF parsed = Null
                    THEN [build EXCEPT !.totalRows = @ + 1, !.skippedRows = @ + 1]
                    ELSE [build EXCEPT !.totalRows = @ + 1,
                                       !.rows = Append(@, parsed)]
    /\ UNCHANGED <<configured, exists, file, records, index, stats,
                   loadingPromise, promise, pc, op, arg, awaiting, result,
                   loadCount, constructCount, statsWrites>>

\* lines 96 and 110: the parser or the read stream emits 'error'
StreamError(kind) ==
    /\ build.phase = "streaming"
    /\ build' = [build EXCEPT !.phase = "rejected",
                              !.error = StreamFailure(build.id, kind)]
    /\ UNCHANGED <<configured, exists, file, records, index, stats,
                   loadingPromise, promise, pc, op, arg, awaiting, result,
                   loadCount, constructCount, statsWrites>>

\* NewStats with usingSpatialIndex: true whatever the constructor did
NewStatsAlwaysIndexed(b, idx) ==
    [sourcePath |-> b.csvPath, totalRows |-> b.totalRows,
     indexedRows |-> Len(b.rows), skippedRows |-> b.skippedRows,
     lastLoadedAt |-> b.id, usingSpatialIndex |-> TRUE]

\* NewStats with indexedRows: totalRows
NewStatsIndexedIsTotal(b, idx) ==
    [sourcePath |-> b.csvPath, totalRows |-> b.totalRows,
     indexedRows |-> b.totalRows, skippedRows |-> b.skippedRows,
     lastLoadedAt |-> b.id, usingSpatialIndex |-> idx # Null]

\* lines 123-131
NewStats(b, idx) ==
    [sourcePath |-> b.csvPath, totalRows |-> b.totalRows,
     indexedRows |-> Len(b.rows), skippedRows |-> b.skippedRows,
     lastLoadedAt |-> b.id, usingSpatialIndex |-> idx # Null]

\* lines 108-131: 'end', then the rest of buildIndex, which has no await:
\* records, index and stats are assigned in one run.  built says whether
\* new KDBush(...) returned (with the tie order of the tree) or threw.
Publish(built, tie) ==
    /\ build.phase = "streaming"
    /\ build.totalRows = Len(file)
    /\ records' = build.rows
    /\ index' = IF built THEN [tie |-> tie] ELSE Null
    /\ constructCount' = constructCount + 1
    /\ stats' = NewStats(build, index')
    /\ statsWrites' = statsWrites + 1
    /\ build' = [build EXCEPT !.phase = "fulfilled"]
    /\ UNCHANGED <<configured, exists, file, loadingPromise, promise,
                   pc, op, arg, awaiting, result, loadCount>>

\* lines 78-80: the finally callback runs once buildIndex has settled, and
\* the promise the callers await settles with buildIndex's outcome
Finally ==
    /\ build.phase \in {"fulfilled", "rejected"}
    /\ loadingPromise' = 0
    /\ promise' = [promise EXCEPT ![build.id] =
                      [state |-> build.phase, error |-> build.error]]
    /\ build' = NoBuild
    /\ UNCHANGED <<configured, exists, file, records, index, stats,
                   pc, op, arg, awaiting, result,
                   loadCount, constructCount, statsWrites>>

-----------------------------------------------------------------------------
(* findNearest, after ensureReady *)

\* lines 51-65
findNearestBody(recs, idx, q) ==
    IF Len(recs) = 0 THEN Returned(<<>>, "empty")
    ELSE LET neighbors == Neighbors(q.limit)
             normalizedLat == clamp(q.lat, -90000000, 90000000).v
             normalizedLng == normalizeLng(q.lng).v
         IN  IF idx # Null
             THEN LET results == around(idx, recs, normalizedLng, normalizedLat, neighbors)
                  IN  Returned(Annotate(results, normalizedLat, normalizedLng), "tree")
             ELSE Returned(linearNearest(recs, normalizedLat, normalizedLng, neighbors),
                           "linear")

\* recordsAfterQuery for a linear scan that sorts this.records itself
recordsSortedInPlace(recs, idx, q) ==
    IF idx # Null THEN recs
    ELSE LET lat == clamp(q.lat, -90000000, 90000000).v
             lng == normalizeLng(q.lng).v
             keyed == [i \in 1..Len(recs) |->
                          [key |-> computeDistance(lat, lng, recs[i].latitude,
                                                   recs[i].longitude),
                           item |-> recs[i]]]
         IN  Items(StableSortByKey(keyed))

\* recordsAfterQuery for a linear scan that takes its results out of
\* this.records (splice in the place of slice, without the copy)
recordsSplicedInPlace(recs, idx, q) ==
    IF idx # Null THEN recs
    ELSE SubSeq(recs, Min(Neighbors(q.limit), Len(recs)) + 1, Len(recs))

\* line 209: [...this.records] is a copy, the scan leaves this.records as
\* it was; the tree path only reads
recordsAfterQuery(recs, idx, q) == recs

\* Settled for an ensureReady that does not await the build
SettledNoAwait(p) == TRUE

\* Settled for an await that only a fulfilled promise ends
SettledOnlyFulfilled(p) == IF p = 0 THEN TRUE ELSE promise[p].state = "fulfilled"

\* line 83: await this.loadingPromise
Settled(p) == IF p = 0 THEN TRUE ELSE promise[p].state \in {"fulfilled", "rejected"}

\* Rejected for an await whose rejection is swallowed
RejectedSwallowed(p) == FALSE

\* lines 83 and 49: the await of a rejected promise throws in the caller
\* (ensureReady and findNearest have no catch)
Rejected(p) == IF p = 0 THEN FALSE ELSE promise[p].state = "rejected"

\* GET /api/locations/nearest.  A query-string parameter is absent, a numeral
\* (lat and lng in micro-degrees, limit in tenths) or some other text.

\* dto lines 5 and 11: parseFloat(value)
parseFloatParam(value) ==
    IF value.k = "numeral" THEN Num(value.v) ELSE NaN

\* parseInt(value, 10) of a numeral: the digits before the decimal point
parseIntTenths(v) == IF v >= 0 THEN (v \div 10) * 10 ELSE -(((-v) \div 10) * 10)

\* dto lines 17-22
transformLimit(value) ==
    IF value.k = "absent" THEN Num(10)
    ELSE IF value.k = "numeral" THEN Num(parseIntTenths(value.v))
    ELSE NaN

\* class-validator's decorators of the dto: IsNumber rejects NaN, Min and Max
\* compare numbers, IsInt wants a whole number (the limit is in tenths)
IsNumber(x) == x.k = "num"
IsInt(x) == x.k = "num" /\ x.v % 10 = 0
AtLeast(x, min) == x.k = "num" /\ x.v >= min
AtMost(x, max) == x.k = "num" /\ x.v <= max

\* dto lines 4-27: the properties of the transformed query that fail one of
\* their decorators
ValidationErrors(query) ==
    (IF IsNumber(query.lat) /\ AtLeast(query.lat, -90000000) /\ AtMost(query.lat, 90000000)
     THEN {} ELSE {"lat"})
    \cup (IF IsNumber(query.lng) /\ AtLeast(query.lng, -180000000)
              /\ AtMost(query.lng, 180000000)
           THEN {} ELSE {"lng"})
    \cup (IF IsInt(query.limit) /\ AtLeast(query.limit, 10) /\ AtMost(query.limit, 500)
           THEN {} ELSE {"limit"})

\* the answer of the ValidationPipe to a query that fails validation
BadRequest(errors) ==
    [status |-> "400", items |-> <<>>, path |-> "none",
     error |-> [kind |-> "BadRequest", message |-> errors]]

\* Response with meta.totalIndexed taken from the data, not from the stats
ResponseTotalFromData(found, st) ==
    [status |-> "200", items |-> found.items, error |-> Null, path |-> found.path,
     meta |-> [count |-> Len(found.items),
               totalIndexed |-> Len(found.items),
               source |-> IF st = Null THEN "unknown" ELSE st.sourcePath,
               usingSpatialIndex |-> IF st = Null THEN FALSE ELSE st.usingSpatialIndex]]

\* controller lines 18-39: the body of a 200 answer
Response(found, st) ==
    [status |-> "200", items |-> found.items, error |-> Null, path |-> found.path,
     meta |-> [count |-> Len(found.items),
               totalIndexed |-> IF st = Null THEN 0 ELSE st.indexedRows,
               source |-> IF st = Null THEN "unknown" ELSE st.sourcePath,
               usingSpatialIndex |-> IF st = Null THEN FALSE ELSE st.usingSpatialIndex]]

\* controller lines 5-18: the pipe transforms and validates the query; a query
\* that fails is answered 400 and getNearest is not called, another one
\* goes to findNearest
HttpGetNearest(c, request) ==
    LET query == [lat |-> parseFloatParam(request.lat),
                  lng |-> parseFloatParam(request.lng),
                  limit |-> transformLimit(request.limit),
                  request |-> request]
        errors == ValidationErrors(query)
    IN  IF errors = {}
        THEN Call(c, "http", query)
        ELSE /\ pc[c] \in {"idle", "done"}
             /\ pc' = [pc EXCEPT ![c] = "done"]
             /\ op' = [op EXCEPT ![c] = "http"]
             /\ arg' = [arg EXCEPT ![c] = query]
             /\ awaiting' = [awaiting EXCEPT ![c] = 0]
             /\ result' = [result EXCEPT ![c] = BadRequest(errors)]
             /\ UNCHANGED <<configured, exists, file, records, index, stats,
                            loadingPromise, build, promise,
                            loadCount, constructCount, statsWrites>>

\* The await of ensureReady (lines 83, 45, 49) completes: the caller throws
\* what the build threw, or goes on
Resume(c) ==
    /\ pc[c] = "awaiting"
    /\ Settled(awaiting[c])
    /\ pc' = [pc EXCEPT ![c] = "done"]
    /\ IF Rejected(awaiting[c])
       THEN /\ result' = [result EXCEPT ![c] = Thrown(promise[awaiting[c]].error)]
            /\ UNCHANGED records
       ELSE IF op[c] = "init"
       THEN /\ result' = [result EXCEPT ![c] = Returned(<<>>, "none")]
            /\ UNCHANGED records
       ELSE IF op[c] = "http"
       THEN /\ result' = [result EXCEPT ![c] =
                              Response(findNearestBody(records, index, arg[c]), stats)]
            /\ records' = recordsAfterQuery(records, index, arg[c])
       ELSE /\ result' = [result EXCEPT ![c] = findNearestBody(records, index, arg[c])]
            /\ records' = recordsAfterQuery(records, index, arg[c])
    /\ UNCHANGED <<configured, exists, file, index, stats, loadingPromise,
                   build, promise, op, arg, awaiting,
                   loadCount, constructCount, statsWrites>>

-----------------------------------------------------------------------------

Next ==
    \/ \E c \in Callers : Call(c, "init", NoQuery)
    \/ \E c \in Callers, q \in Queries : Call(c, "find", q)
    \/ ResolvePath
    \/ StreamRow
    \/ \E kind \in {"Io", "Parse"} : StreamError(kind)
    \/ \E built \in BOOLEAN, tie \in {"fwd", "rev"} : Publish(built, tie)
    \/ Finally
    \/ \E c \in Callers : Resume(c)

Spec == Init /\ [][Next]_vars

\* The protocol with the scheduling of the event loop: the continuation of a
\* caller whose awaited promise has settled is a queued microtask, and the
\* loop runs it.
\* It starts from one environment, in which the source is found and has
\* one record; a load fails when the stream emits an error.
FairInit ==
    /\ configured = FALSE
    /\ exists = {"cwd/languoid.csv"}
    /\ file = <<Alpha>>
    /\ Unbuilt
    /\ Idle

\* what the wait does not depend on is fixed: the stream fails in one way
\* and the index constructor returns
FairNext ==
    \/ \E c \in Callers : Call(c, "init", NoQuery)
    \/ \E c \in Callers, q \in Queries : Call(c, "find", q)
    \/ ResolvePath
    \/ StreamRow
    \/ StreamError("Io")
    \/ Publish(TRUE, "fwd")
    \/ Finally
    \/ \E c \in Callers : Resume(c)

FairSpec == FairInit /\ [][FairNext]_vars /\ \A c \in Callers : WF_vars(Resume(c))

\* The query specification: over a source that can be read, one caller
\* asks every query of QueryQueries while a second one repeats the query of
\* the protocol specification.

QueryInit ==
    /\ configured = FALSE
    /\ exists = {"cwd/languoid.csv"}
    /\ file \in QueryFiles
    /\ Unbuilt
    /\ Idle

QueryNext ==
    \/ \E q \in QueryQueries : Call(1, "find", q)
    \/ \E q \in Queries : Call(2, "find", q)
    \/ ResolvePath
    \/ StreamRow
    \/ \E built \in BOOLEAN, tie \in {"fwd", "rev"} : Publish(built, tie)
    \/ Finally
    \/ \E c \in {1, 2} : Resume(c)

QuerySpec == QueryInit /\ [][QueryNext]_vars

\* The HTTP specification: one client sends the requests of HttpRequests to
\* a server whose source can be read.

HttpInit ==
    /\ configured = FALSE
    /\ exists = {"cwd/languoid.csv"}
    /\ file \in HttpFiles
    /\ Unbuilt
    /\ Idle

HttpNext ==
    \/ \E request \in HttpRequests : HttpGetNearest(1, request)
    \/ ResolvePath
    \/ StreamRow
    \/ \E built \in BOOLEAN, tie \in {"fwd", "rev"} : Publish(built, tie)
    \/ Finally
    \/ Resume(1)

HttpSpec == HttpInit /\ [][HttpNext]_vars

-----------------------------------------------------------------------------
(* Properties of the build protocol, checked under Spec *)

\* the records a complete pass over the source yields
RECURSIVE ParseAll(_)
ParseAll(rows) ==
    IF rows = <<>> THEN <<>>
    ELSE LET parsed == toLocationRecord(Head(rows))
         IN  (IF parsed = Null THEN <<>> ELSE <<parsed>>) \o ParseAll(Tail(rows))

NoBuildCompleted ==
    /\ build.phase \notin {"fulfilled", "rejected"}
    /\ \A b \in Builds : promise[b].state \in {"none", "pending"}

\* C1: while no build has completed, the callers that have called share one
\* build: a single load pass has been started, every caller awaits it and
\* none has started another; when that first build completes, one load pass
\* and one index construction have been performed.
C1_OneBuildForConcurrentCallers ==
    /\ (NoBuildCompleted /\ \E c \in Callers : pc[c] = "awaiting")
          => /\ loadCount = 1
             /\ constructCount = 0
             /\ loadingPromise = 1
             /\ build.id = 1
             /\ \A c \in Callers : pc[c] = "awaiting" => awaiting[c] = 1
    /\ (build.id = 1 /\ build.phase = "fulfilled")
          => (loadCount = 1 /\ constructCount = 1)

C1_Witness ==
    /\ build.id = 1
    /\ build.phase = "fulfilled"
    /\ \A c \in Callers : pc[c] = "awaiting" /\ awaiting[c] = 1
    /\ loadCount = 1
    /\ constructCount = 1

\* C2: once a build has completed successfully, whatever the number of
\* records it loaded, no later load is started and the stats are written
\* once.
C2_BuiltOnce ==
    stats # Null => (loadCount = stats.lastLoadedAt /\ statsWrites = 1)

\* C3: once a build has failed, no later load is started, and every call
\* that ends after the failure ends with that failure's error.
C3_FailureCached ==
    \A b \in Builds :
        promise[b].state = "rejected"
            => /\ loadCount = b
               /\ \A c \in Callers :
                     (pc[c] = "done" /\ awaiting[c] >= b)
                         => result[c] = Thrown(promise[b].error)

\* C4: a findNearest that awaited a build has returned only after that build
\* settled, and what it returned was computed from the complete record set
\* of the source: as many results as the query asks for, or all records.
C4_QueryWaitsForBuild ==
    \A c \in Callers :
        (pc[c] = "done" /\ awaiting[c] # 0)
            => /\ promise[awaiting[c]].state \in {"fulfilled", "rejected"}
               /\ (op[c] = "find" /\ result[c].status = "ok")
                     => /\ promise[awaiting[c]].state = "fulfilled"
                        /\ Len(result[c].items)
                              = Min(Neighbors(arg[c].limit), Len(ParseAll(file)))

C4_Witness ==
    /\ \A c \in Callers :
          /\ pc[c] = "done"
          /\ op[c] = "find"
          /\ awaiting[c] = 1
          /\ Len(result[c].items) = 2
    /\ Len(ParseAll(file)) = 2

\* C5: when the index constructor threw, the build is fulfilled all the same:
\* the records are the loaded ones, the index is null, the stats say
\* usingSpatialIndex = false; every caller that awaited this build returns
\* without error, and a findNearest over its records answers by the linear
\* scan.
Degraded == stats # Null /\ index = Null

C5_DegradedBuildSucceeds ==
    Degraded
        => /\ ~stats.usingSpatialIndex
           /\ records = ParseAll(file)
           /\ stats.indexedRows = Len(records)
           /\ build.id = stats.lastLoadedAt => build.phase = "fulfilled"
           /\ promise[stats.lastLoadedAt].state \in {"pending", "fulfilled"}
           /\ \A c \in Callers :
                 (pc[c] = "done" /\ awaiting[c] \in {0, stats.lastLoadedAt})
                     => /\ result[c].status = "ok"
                        /\ (op[c] = "find" /\ records # <<>>)
                              => (result[c].path = "linear" /\ result[c].items # <<>>)

C5_Witness ==
    /\ Degraded
    /\ records # <<>>
    /\ \E c, d \in Callers :
          /\ pc[c] = "done" /\ op[c] = "find" /\ awaiting[c] = stats.lastLoadedAt
          /\ pc[d] = "done" /\ op[d] = "find" /\ awaiting[d] = 0
          /\ result[c].path = "linear"
          /\ result[d].path = "linear"

-----------------------------------------------------------------------------
(* Properties of the query, checked under QuerySpec *)

Answered(c) == pc[c] = "done" /\ op[c] = "find" /\ result[c].status = "ok"

Ids(items) == [i \in 1..Len(items) |-> items[i].id]

\* C6: a findNearest answered by the linear scan returns the sequence that
\* the tree-backed findNearest returns over the same records (for one of the
\* orders in which a tree yields points at exactly the same distance).
C6_LinearEqualsTree ==
    \A c \in Callers :
        (Answered(c) /\ result[c].path = "linear")
            => \E tie \in {"fwd", "rev"} :
                  result[c].items = findNearestBody(records, [tie |-> tie], arg[c]).items

\* C7: on both paths the results are in non-decreasing order of
\* distanceMeters.
C7_SortedByDistance ==
    \A c \in Callers :
        Answered(c)
            => \A i \in 1..(Len(result[c].items) - 1) :
                  result[c].items[i].distanceMeters
                      <= result[c].items[i + 1].distanceMeters

C7_Witness ==
    \E c \in Callers :
        /\ Answered(c)
        /\ result[c].path = "linear"
        /\ Len(result[c].items) >= 2
        /\ result[c].items[1].distanceMeters < result[c].items[2].distanceMeters
        /\ result[c].items[1].id # records[1].id

\* C8, as claimed: the number of results is at most min(limit, 50,
\* totalIndexed), for zero and negative limits too (where that minimum is
\* not positive, nothing is returned).
C8_AtMostLimit ==
    \A c \in Callers :
        (Answered(c) /\ arg[c].limit.k = "num")
            => /\ stats # Null
               /\ Len(result[c].items) * 10 <= Max(arg[c].limit.v, 0)
               /\ Len(result[c].items) <= maxNeighbors
               /\ Len(result[c].items) <= stats.indexedRows

\* C8, amended: the number of results is at most min(max(limit, 1), 50,
\* totalIndexed), a missing or not-a-number limit counting as 1.
C8_AtMostClampedLimit ==
    \A c \in Callers :
        Answered(c)
            => /\ stats # Null
               /\ Len(result[c].items) <= maxNeighbors
               /\ Len(result[c].items) <= stats.indexedRows
               /\ arg[c].limit.k = "num"
                     => Len(result[c].items) * 10 <= Max(arg[c].limit.v, 10)
               /\ arg[c].limit.k \in {"undefined", "nan", "ninf"}
                     => Len(result[c].items) <= 1

C8_Witness ==
    \E c \in Callers :
        /\ Answered(c)
        /\ arg[c].limit = Num(600)
        /\ Len(result[c].items) = maxNeighbors
        /\ stats.indexedRows > maxNeighbors

\* the effective count as C9 states it
ClaimedK(limit) ==
    CASE limit.k \in {"undefined", "nan", "ninf"} -> 1
      [] limit.k = "inf"                          -> 50
      [] limit.v < 10                             -> 1
      [] limit.v > 500                            -> 50
      [] OTHER                                    -> limit.v \div 10

\* C9: the call returns exactly min(k, number of loaded records) results,
\* k being 1 for a missing, not-a-number or below-1 limit, floor(limit)
\* within 1..50 and 50 above; on both paths.
C9_CountIsMinOfKAndRecords ==
    \A c \in Callers :
        Answered(c)
            => Len(result[c].items) = Min(ClaimedK(arg[c].limit), Len(records))

C9_Witness ==
    \E c \in Callers :
        /\ Answered(c)
        /\ arg[c].limit = Num(27)
        /\ Len(result[c].items) = 2
        /\ Len(records) > 2

\* C10: two answered calls with the same query return the same sequence of
\* record ids, whatever was asked in between.
C10_SameQuerySameIds ==
    \A c, d \in Callers :
        (Answered(c) /\ Answered(d) /\ arg[c] = arg[d])
            => Ids(result[c].items) = Ids(result[d].items)

C10_Witness ==
    \E c, d \in Callers :
        /\ c # d
        /\ Answered(c) /\ Answered(d) /\ arg[c] = arg[d]
        /\ awaiting[c] # awaiting[d]
        /\ Len(result[c].items) = 2
        /\ result[c].items[1].distanceMeters = result[c].items[2].distanceMeters
        /\ result[c].items[1].id # result[c].items[2].id

Abs(n) == IF n < 0 THEN -n ELSE n

\* The latitude and longitude a query is answered for: the latitude brought
\* into [-90, 90], the longitude into [-180, 180) by whole turns.
QueryLat(q) ==
    IF q.lat.v > 90000000 THEN 90000000
    ELSE IF q.lat.v < -90000000 THEN -90000000 ELSE q.lat.v
QueryLng(q) == ((q.lng.v + 180000000) % 360000000) - 180000000

\* d is the whole number of metres nearest to 6371000 m times the angle of
\* cE8 * 1e-8 rad (the difference, in units of 1e-5 m, is at most half a
\* metre)
NearestMetre(d, cE8) ==
    LET hi == cE8 \div 100000
        lo == cE8 % 100000
    IN  Abs(2 * 100000 * (d - 6371 * hi) - 2 * 6371 * lo) <= 100000

\* C11: on the tree path and on the linear path alike, every result's
\* distanceMeters is the haversine distance, to the nearest metre on a sphere
\* of radius 6371000 m, between the query point (latitude clamped, longitude
\* wrapped) and the latitude and longitude stored in that result.
C11_DistanceIsHaversine ==
    \A c \in Callers :
        Answered(c)
            => \A i \in 1..Len(result[c].items) :
                  LET item == result[c].items[i]
                  IN  NearestMetre(item.distanceMeters,
                                   CentralAngle(QueryLat(arg[c]), QueryLng(arg[c]),
                                                item.latitude, item.longitude))

C11_Witness ==
    \E c \in Callers :
        /\ Answered(c)
        /\ result[c].path = "linear"
        /\ arg[c].lng.v = 0
        /\ Len(result[c].items) = 2
        /\ result[c].items[2].distanceMeters = 157250

\* C12: for every finite query longitude, the longitude the query is run
\* with lies in [-180, 180) and differs from the given one by a whole number
\* of turns of 360 degrees; 190 becomes -170, -190 becomes 170 and 180
\* becomes -180.
C12_LongitudeWrapped ==
    \A c \in Callers :
        (op[c] = "find" /\ arg[c].lng.k = "num")
            => LET given == arg[c].lng.v
                   used == normalizeLng(arg[c].lng)
               IN  /\ used.k = "num"
                   /\ used.v >= -180000000
                   /\ used.v < 180000000
                   /\ (used.v - given) % 360000000 = 0
                   /\ given = 190000000 => used.v = -170000000
                   /\ given = -190000000 => used.v = 170000000
                   /\ given = 180000000 => used.v = -180000000

C12_Witness ==
    \E c \in Callers :
        /\ Answered(c)
        /\ arg[c].lng.v = -190000000
        /\ Len(result[c].items) >= 1
        /\ result[c].items[1].distanceMeters
               = computeDistance(-90000000, 170000000,
                                 result[c].items[1].latitude,
                                 result[c].items[1].longitude)

\* C13: once records are loaded, a findNearest with finite coordinates in or
\* out of range and any limit does not fail: it returns at least one result,
\* and the nearest one carries the distance from the point with the latitude
\* clamped into [-90, 90] and the longitude wrapped into [-180, 180)
\* (lat=95, lng=190 is answered from (90, -170)).
C13_OutOfRangeAnswered ==
    \A c \in Callers :
        (pc[c] = "done" /\ op[c] = "find" /\ records # <<>>)
            => /\ result[c].status = "ok"
               /\ Len(result[c].items) >= 1
               /\ result[c].items[1].distanceMeters
                      = RoundedMeters(CentralAngle(QueryLat(arg[c]), QueryLng(arg[c]),
                                                   result[c].items[1].latitude,
                                                   result[c].items[1].longitude))
               /\ (arg[c].lat.v = 95000000 /\ arg[c].lng.v = 190000000)
                      => result[c].items[1].distanceMeters
                            = RoundedMeters(CentralAngle(90000000, -170000000,
                                                         result[c].items[1].latitude,
                                                         result[c].items[1].longitude))

C13_Witness ==
    \E c \in Callers :
        /\ Answered(c)
        /\ arg[c] = Query(Num(95000000), Num(190000000), Num(10))
        /\ Len(result[c].items) = 1
        /\ result[c].items[1].id = "Pole"
        /\ result[c].items[1].distanceMeters = 111195

\* C14: once the source has been loaded with zero valid rows (the statistics
\* report indexedRows = 0), every findNearest made from then on returns the
\* empty sequence and does not fail.
C14_EmptySourceAnswersEmpty ==
    (stats # Null /\ stats.indexedRows = 0)
        => \A c \in Callers :
              (pc[c] = "done" /\ op[c] = "find" /\ awaiting[c] >= stats.lastLoadedAt)
                  => result[c] = Returned(<<>>, "empty")

\* C15: a findNearest whose load failed ends in the error of that load, and
\* a findNearest returns the empty sequence only after a load that succeeded
\* with zero records.
C15_FailureIsNotEmptyResult ==
    \A c \in Callers :
        (pc[c] = "done" /\ op[c] = "find")
            => /\ (awaiting[c] # 0 /\ promise[awaiting[c]].state = "rejected")
                      => /\ result[c].status = "error"
                         /\ result[c].error # Null
                         /\ result[c].error = promise[awaiting[c]].error
               /\ (result[c].status = "ok" /\ result[c].items = <<>>)
                      => /\ awaiting[c] # 0
                         /\ promise[awaiting[c]].state = "fulfilled"
                         /\ stats # Null
                         /\ stats.indexedRows = 0

C15_Witness ==
    \E c, d \in Callers :
        /\ pc[c] = "done" /\ op[c] = "find"
        /\ pc[d] = "done" /\ op[d] = "find"
        /\ result[c] = Returned(<<>>, "empty")
        /\ result[d].status = "error"
        /\ promise[awaiting[d]].state = "rejected"

\* C16: getStats() returns null before any build has been attempted, and a
\* statistics object once a build attempt has finished, whether buildIndex
\* returned or threw.
C16_StatsAfterAnyAttempt ==
    /\ loadCount = 0 => stats = Null
    /\ (\/ build.phase \in {"fulfilled", "rejected"}
        \/ \E b \in Builds : promise[b].state \in {"fulfilled", "rejected"})
           => stats # Null

\* a row both of whose coordinates are present, non-empty and numerals of
\* finite numbers
HasBothCoordinates(row) ==
    row.latitude.k = "numeral" /\ row.longitude.k = "numeral"

KeptRows(rows) == SelectSeq(rows, HasBothCoordinates)

\* C17: a load keeps exactly the rows with both coordinates present,
\* non-empty and finite and counts every other row as skipped, going on with
\* the rows after it; after a successful build totalRows = indexedRows +
\* skippedRows, indexedRows is the number of records, and five rows of which
\* two have a bad coordinate give 5 / 3 / 2.
C17_SkipAccounting ==
    /\ build.phase = "streaming"
          => LET seen == SubSeq(file, 1, build.totalRows)
             IN  /\ Ids(build.rows) = Ids(KeptRows(seen))
                 /\ build.skippedRows = build.totalRows - Len(KeptRows(seen))
    /\ stats # Null
          => /\ stats.totalRows = Len(file)
             /\ stats.totalRows = stats.indexedRows + stats.skippedRows
             /\ stats.indexedRows = Len(records)
             /\ Ids(records) = Ids(KeptRows(file))
             /\ file = FiveRows
                   => /\ stats.totalRows = 5
                      /\ stats.indexedRows = 3
                      /\ stats.skippedRows = 2

C17_Witness ==
    /\ file = FiveRows
    /\ stats # Null
    /\ stats.totalRows = 5
    /\ stats.indexedRows = 3
    /\ stats.skippedRows = 2
    /\ Ids(records) = <<"Alpha", "Beta", "Gamma">>

\* the default locations, in the order of the claim, and the whole order:
\* the configured override first when there is one
DefaultPaths ==
    <<"cwd/languoid.csv", "cwd/../../languoid.csv",
      "dirname/../../../../../languoid.csv">>
ProbeOrder ==
    IF configured THEN <<"LOCATION_CSV_PATH">> \o DefaultPaths ELSE DefaultPaths

FirstExistingInOrder(path) ==
    \E i \in 1..Len(ProbeOrder) :
        /\ ProbeOrder[i] = path
        /\ path \in exists
        /\ \A j \in 1..(i - 1) : ProbeOrder[j] \notin exists

\* C18: the path a build reads, and the one the statistics name, is the first
\* existing one in the order override (when set), then the defaults; when an
\* existing default is there, resolution does not fail, whether or not the
\* override is set and exists.
C18_FirstExistingCandidate ==
    /\ build.csvPath # "" => FirstExistingInOrder(build.csvPath)
    /\ stats # Null => FirstExistingInOrder(stats.sourcePath)
    /\ (/\ build.phase \in {"streaming", "fulfilled", "rejected"}
        /\ \E i \in 1..Len(DefaultPaths) : DefaultPaths[i] \in exists)
           => build.csvPath # ""

C18_Witness ==
    /\ configured
    /\ "LOCATION_CSV_PATH" \notin exists
    /\ stats # Null
    /\ stats.sourcePath = "cwd/../../languoid.csv"
    /\ \E c \in Callers : Answered(c)

NoCandidateExists == \A i \in 1..Len(ProbeOrder) : ProbeOrder[i] \notin exists

\* what C19 says of a failed resolution apart from the retry: the error names
\* every probed path, and neither records nor statistics are published
NoSourceReported ==
    /\ records = <<>>
    /\ stats = Null
    /\ \A b \in Builds :
          promise[b].state = "rejected"
              => /\ promise[b].error.kind = "NoSource"
                 /\ promise[b].error.probed = ProbeOrder

\* C19: when no candidate path exists the build fails with an error that
\* names every probed path, nothing is published, and later calls do not
\* resolve again: one build is made, not more.
C19_NoSourceNotRetried ==
    NoCandidateExists => (NoSourceReported /\ loadCount <= 1)

-----------------------------------------------------------------------------
(* Properties of the HTTP endpoint, checked under HttpSpec *)

\* a request with a parameter outside its declared range: lat outside
\* [-90, 90], lng outside [-180, 180], or a limit that is not an integer in
\* 1..50
OutsideDeclaredRanges(request) ==
    \/ request.lat.k = "numeral"
          /\ (request.lat.v < -90000000 \/ request.lat.v > 90000000)
    \/ request.lng.k = "numeral"
          /\ (request.lng.v < -180000000 \/ request.lng.v > 180000000)
    \/ request.limit.k = "text"
    \/ request.limit.k = "numeral"
          /\ (request.limit.v % 10 # 0 \/ request.limit.v < 10 \/ request.limit.v > 500)

\* C20: a request with a parameter outside its declared range is answered
\* 400 with an error message and without nearest-record data.
C20_OutOfRangeIs400 ==
    \A c \in Callers :
        (pc[c] = "done" /\ op[c] = "http" /\ OutsideDeclaredRanges(arg[c].request))
            => /\ result[c].status = "400"
               /\ result[c].error # Null
               /\ result[c].items = <<>>

\* caller c receives the 200 answer of the nearest endpoint in this step
Answers200(c) ==
    /\ pc[c] = "awaiting"
    /\ pc'[c] = "done"
    /\ op[c] = "http"
    /\ result'[c].status = "200"

\* C21: when a 200 answer is made, meta.count is the number of records in
\* its data, meta.totalIndexed is the number of indexed records at that
\* moment (so count <= totalIndexed, and count <= 50), and
\* meta.usingSpatialIndex is true exactly when the tree index is there, in
\* which case the data came from the tree.
C21_MetaConsistent ==
    [][\A c \in Callers :
          Answers200(c)
              => LET answer == result'[c]
                 IN  /\ answer.meta.count = Len(answer.items)
                     /\ answer.meta.totalIndexed = Len(records')
                     /\ answer.meta.count <= answer.meta.totalIndexed
                     /\ answer.meta.count <= 50
                     /\ answer.meta.usingSpatialIndex = (index' # Null)
                     /\ Len(answer.items) > 0
                           => (answer.meta.usingSpatialIndex <=> answer.path = "tree")]_vars

C21_Witness ==
    \E c \in Callers :
        /\ pc[c] = "done" /\ op[c] = "http"
        /\ result[c].status = "200"
        /\ Ids(result[c].items) = <<"Alpha">>
        /\ result[c].meta.count = 1
        /\ result[c].meta.totalIndexed = 3
        /\ ~result[c].meta.usingSpatialIndex
        /\ index = Null

\* C22: over the fixture (Alpha at (1, 1), Beta at (1.05, 1.05), Gamma at
\* (-9.5, 121)), findNearest(1, 1, 2) returns Alpha then Beta, Alpha at
\* distance 0 and Beta at a positive distance smaller than the one from
\* (1, 1) to Gamma.
C22_FixtureAlphaThenBeta ==
    \A c \in Callers :
        (Answered(c) /\ file = FixtureFile
             /\ arg[c] = Query(Num(1000000), Num(1000000), Num(20)))
            => /\ Ids(result[c].items) = <<"Alpha", "Beta">>
               /\ result[c].items[1].distanceMeters = 0
               /\ result[c].items[2].distanceMeters > 0
               /\ result[c].items[2].distanceMeters
                      < computeDistance(1000000, 1000000, -9500000, 121000000)

C22_Witness ==
    \E c \in Callers :
        /\ Answered(c)
        /\ file = FixtureFile
        /\ arg[c] = Query(Num(1000000), Num(1000000), Num(20))
        /\ result[c].path = "tree"
        /\ Ids(result[c].items) = <<"Alpha", "Beta">>
        /\ result[c].items[2].distanceMeters = 7862

\* the callers that awaited build b and have been released saw its outcome:
\* the error of b when it failed, no error when it succeeded
SameOutcome ==
    \A c \in Callers :
        (pc[c] = "done" /\ awaiting[c] # 0)
            => LET b == awaiting[c]
               IN  /\ promise[b].state = "rejected"
                         => result[c] = Thrown(promise[b].error)
                   /\ promise[b].state = "fulfilled"
                         => result[c].status = "ok"

\* the release of a waiter starts no build
ReleaseStartsNoBuild ==
    \A c \in Callers :
        (pc[c] = "awaiting" /\ pc'[c] = "done")
            => (loadCount' = loadCount /\ loadingPromise' = loadingPromise)

\* caller c is suspended on a promise that has settled
SuspendedAfterSettle(c) ==
    /\ pc[c] = "awaiting"
    /\ awaiting[c] # 0
    /\ promise[awaiting[c]].state \in {"fulfilled", "rejected"}

\* C23: no caller stays suspended once the build it waits for has settled
\* (it is released again and again, never left waiting for good); the
\* callers released from one build all saw its outcome (its error, or
\* success and their answer); the release starts no second build.
C23_WaitersReleased ==
    /\ []SameOutcome
    /\ [][ReleaseStartsNoBuild]_vars
    /\ \A c \in Callers : []<>(~SuspendedAfterSettle(c))

C23_Witness ==
    \E b \in Builds :
        /\ promise[b].state = "rejected"
        /\ \A c \in Callers :
              /\ pc[c] = "done"
              /\ awaiting[c] = b
              /\ result[c] = Thrown(promise[b].error)

\* a step of a findNearest of caller c (its call, or its answer) taken with
\* records loaded
QueryStepWhenReady(c) ==
    /\ records # <<>>
    /\ pc'[c] # pc[c]
    /\ op'[c] = "find"

\* C24: with at least one record loaded, a findNearest, by the tree or by
\* the linear scan, leaves records (content and order), index and stats as
\* they were, and starts no build.
C24_QueryLeavesStateUnchanged ==
    [][\A c \in Callers :
          QueryStepWhenReady(c)
              => /\ records' = records
                 /\ index' = index
                 /\ stats' = stats
                 /\ loadCount' = loadCount]_vars

C24_Witness ==
    \E c \in Callers :
        /\ Answered(c)
        /\ result[c].path = "linear"
        /\ index = Null
        /\ Len(records) = 2
        /\ records = ParseAll(file)
        /\ Len(result[c].items) = 2
        /\ result[c].items[1].id = records[2].id
        /\ result[c].items[1].distanceMeters < result[c].items[2].distanceMeters

\* the records of recs that are not among the first n of the sequence kept
LeftOut(recs, kept) ==
    { i \in 1..Len(recs) : \A j \in 1..Len(kept) : kept[j].id # recs[i].id }

\* no record left out of the answer of c is strictly nearer, in distanceMeters,
\* than a returned one
NoNearerLeftOut(c) ==
    \A i \in LeftOut(records, result[c].items), j \in 1..Len(result[c].items) :
        computeDistance(QueryLat(arg[c]), QueryLng(arg[c]),
                        records[i].latitude, records[i].longitude)
            >= result[c].items[j].distanceMeters

\* a record lies exactly on the normalized query point of c
OnARecord(c) ==
    \E i \in 1..Len(records) :
        /\ records[i].latitude = QueryLat(arg[c])
        /\ records[i].longitude = QueryLng(arg[c])

\* C25: in the degraded state the linear scan returns the k records of least
\* distance: no record left out is strictly nearer than a returned one, and
\* a query with limit 1 placed exactly on a record returns that record.
C25_DegradedReturnsNearest ==
    \A c \in Callers :
        (Answered(c) /\ result[c].path = "linear")
            => /\ Len(result[c].items) = Min(Neighbors(arg[c].limit), Len(records))
               /\ NoNearerLeftOut(c)
               /\ (Neighbors(arg[c].limit) = 1 /\ OnARecord(c))
                     => /\ result[c].items[1].latitude = QueryLat(arg[c])
                        /\ result[c].items[1].longitude = QueryLng(arg[c])

\* the builds whose promise has not settled
InFlight == { b \in Builds : promise[b].state = "pending" }

\* C26: at most one buildIndex is in flight; while one runs (and until its
\* finally callback has run) loadingPromise is that build's promise, and
\* loadingPromise is null only when no build is running.
C26_OneBuildInFlight ==
    /\ Cardinality(InFlight) <= 1
    /\ build.phase # "none"
          => /\ loadingPromise = build.id
             /\ build.id = loadCount
             /\ InFlight = {build.id}
    /\ loadingPromise = 0
          => /\ build.phase = "none"
             /\ InFlight = {}

C26_Witness ==
    /\ loadCount = 2
    /\ build.id = 2
    /\ build.phase = "streaming"
    /\ loadingPromise = 2
    /\ promise[1].state = "rejected"
    /\ \A c \in Callers : pc[c] = "awaiting" /\ awaiting[c] = 2

\* a step of a build attempt other than its successful end: the attempt goes
\* on, fails, or, having failed, has its finally callback run
StepOfUnfinishedAttempt ==
    /\ build.phase \in {"resolving", "streaming", "rejected"}
    /\ build'.phase # "fulfilled"

\* C27: no step of a build attempt that fails, in path resolution or while
\* streaming, writes records, index or stats, so that they are after the
\* failure what they were before the attempt, whatever rows had been parsed;
\* and the finally callback of the failed attempt resets loadingPromise.
C27_FailedBuildPublishesNothing ==
    [][/\ StepOfUnfinishedAttempt
           => (records' = records /\ index' = index /\ stats' = stats)
       /\ (build.phase = "rejected" /\ build'.phase # "rejected")
           => (loadingPromise' = 0 /\ promise'[build.id].state = "rejected")]_vars

C27_Witness ==
    /\ build.phase = "rejected"
    /\ build.error.kind \in {"Io", "Parse"}
    /\ Len(build.rows) >= 1
    /\ records = <<>>
    /\ index = Null
    /\ stats = Null

\* C28: in every state (each is a point where another caller can run) the
\* published fields agree: records, and an index, are there only with
\* stats; stats.indexedRows is the number of records and
\* stats.usingSpatialIndex says whether index is non-null; all three are
\* those of the last successful build, whose load gave these records.
C28_PublishedStateConsistent ==
    /\ (records # <<>> \/ index # Null) => stats # Null
    /\ stats # Null
          => /\ stats.indexedRows = Len(records)
             /\ stats.usingSpatialIndex <=> index # Null
             /\ stats.totalRows = stats.indexedRows + stats.skippedRows
             /\ records = ParseAll(file)
             /\ stats.lastLoadedAt \in Builds
             /\ stats.lastLoadedAt <= loadCount
             /\ statsWrites = constructCount
             /\ \A b \in Builds :
                   promise[b].state = "fulfilled" => b <= stats.lastLoadedAt

C28_Witness ==
    /\ stats # Null
    /\ index = Null
    /\ Len(records) = 2
    /\ stats.indexedRows = 2
    /\ stats.skippedRows = 1
    /\ ~stats.usingSpatialIndex
    /\ \E c, d \in Callers :
          /\ pc[c] = "awaiting"
          /\ pc[d] = "done" /\ op[d] = "find" /\ result[d].status = "ok"

\* the query of c with the latitude clamped, the longitude wrapped and the
\* limit replaced by the effective count
NormalizedQuery(c) ==
    Query(Num(QueryLat(arg[c])), Num(QueryLng(arg[c])),
          Num(10 * Neighbors(arg[c].limit)))

\* the query of c a whole turn further east
TurnedQuery(c) ==
    Query(arg[c].lat, Num(arg[c].lng.v + 360000000), arg[c].limit)

\* C29: an answered findNearest returned what findNearest returns for the
\* normalized query (results and distances), which is its own
\* normalization, and what it returns for the same query with 360 added to
\* the longitude.
C29_DependsOnNormalizedQuery ==
    \A c \in Callers :
        Answered(c)
            => /\ result[c] = findNearestBody(records, index, NormalizedQuery(c))
               /\ result[c] = findNearestBody(records, index, TurnedQuery(c))
               /\ clamp(NormalizedQuery(c).lat, -90000000, 90000000)
                      = NormalizedQuery(c).lat
               /\ normalizeLng(NormalizedQuery(c).lng) = NormalizedQuery(c).lng
               /\ Neighbors(NormalizedQuery(c).limit) = Neighbors(arg[c].limit)

C29_Witness ==
    \E c \in Callers :
        /\ Answered(c)
        /\ arg[c].lat.v = 95000000
        /\ arg[c].lng.v = 190000000
        /\ NormalizedQuery(c) = Query(Num(90000000), Num(-170000000), Num(20))
        /\ Len(result[c].items) = 2
        /\ result[c].items[1].distanceMeters < result[c].items[2].distanceMeters

=============================================================================
